---- MODULE Spec2Model ----
(***************************************************************************)
(* Register-level model of the two driver programs of the FPGA SHA-256d    *)
(* miner: bitcoin_miner_sdk_xilinx.c ("sdk") and                           *)
(* fpga_sha256d_miner_test.c ("test").  One step of the model is one       *)
(* register access, one usleep, or one branch of the C code.  The          *)
(* accelerator is the environment: every register read returns a value     *)
(* chosen among the values the register can hold.                          *)
(*                                                                         *)
(* A 32-bit word is the pair <<high 16 bits, low 16 bits>>.                *)
(***************************************************************************)
EXTENDS Integers, Sequences, FiniteSets, TLC

VARIABLES
    prog,            \* which program runs: "sdk" or "test"
    pc,              \* position in the program
    stack,           \* return positions of the calls in progress
    choice,          \* main's int choice (sdk), set by scanf
    mode,            \* "none", "test" (mining_loop_test), "real" (mining_loop_real)
    params,          \* mining_params_t filled by process_block_header
    i,               \* index of the parameter-writing for loops
    iteration,       \* int iteration of the sdk polling loops
    found,           \* uint32_t found of print_mining_status
    regs,            \* last value written to each written register offset
    wcount,          \* number of writes to each written register offset
    recent,          \* the last WindowLen register accesses and usleeps
    lastFound,       \* value of the most recent found-status read, <<>> if none
    foundChk,        \* found bit seen by this iteration's found check, -1 if none yet
    sawTerminal,     \* a loop check has read found bit (or exhausted) as set
    outcome,         \* outcome reported by the polling loop, "None" before
    nOutcomes,       \* number of outcome reports
    bodies,          \* number of loop bodies started
    stopsSinceStart, \* stop_mining calls made after the start write
    startCount,      \* writes of 1 to the start control register
    polls,           \* status polls of the test program's loop
    hdr,             \* the header handed to process_block_header (SpecHeader)
    hw,              \* the accelerator's status bits, when it is modelled (SpecHW)
    exitCode,        \* value returned by main, -1 before it returns
    loops,           \* calls of mining_loop_test / mining_loop_real made by main
    snap             \* reads made by print_mining_status, per register

vars == <<prog, pc, stack, choice, mode, params, i, iteration, found, regs,
          wcount, recent, lastFound, foundChk, sawTerminal, outcome,
          nOutcomes, bodies, stopsSinceStart, startCount, polls,
          hdr, hw, exitCode, loops, snap>>

(***************************************************************************)
(* Bounds of the model.                                                    *)
(***************************************************************************)
MaxStatus == 3       \* status registers return <<0, 0..MaxStatus>>
MaxNonce == 1        \* nonce registers return <<0, 0..MaxNonce>>
MaxChoice == 3       \* scanf stores a value of 0..MaxChoice in choice
MaxPolls == 8        \* polls of the test program's loop that are explored
WindowLen == 4       \* accesses kept in recent

(***************************************************************************)
(* 32-bit words.                                                           *)
(***************************************************************************)
U32(hi, lo) == <<hi, lo>>
FromInt(n) == <<(n \div 65536) % 65536, n % 65536>>
AddInt(w, n) == <<(w[1] + ((w[2] + n) \div 65536)) % 65536, (w[2] + n) % 65536>>
Zero == U32(0, 0)
One == U32(0, 1)
AllOnes == U32(\hFFFF, \hFFFF)
Bit0(w) == w[2] % 2
Bit1(w) == (w[2] \div 2) % 2
NonZero(w) == w # Zero
\* (w >> 24) & 0xFF
ShiftRight24(w) == FromInt((w[1] \div 256) % 256)
\* w & 0xFFFFFF
Low24(w) == U32(w[1] % 256, w[2])

StatusVals == {U32(0, v) : v \in 0..MaxStatus}
NonceVals == {U32(0, v) : v \in 0..MaxNonce}
ChoiceVals == 0..MaxChoice

(***************************************************************************)
(* Register map of bitcoin_miner_sdk_xilinx.c.                             *)
(***************************************************************************)
BANK_1_OFFSET == \h0100
BANK_2_OFFSET == \h0200
BANK_3_OFFSET == \h0300
CTRL_SRST == \h0000
CTRL_START == \h0004
CTRL_CURRENT_HASH_REQ_Typo == \h0100
CTRL_CURRENT_HASH_REQ == \h0010
STATUS_FOUND == \h0000
STATUS_NOT_FOUND == \h0004
STATUS_GOLDEN_NONCE == \h0008
STATUS_CURRENT_NONCE == \h000C

(***************************************************************************)
(* Register map of fpga_sha256d_miner_test.c.                              *)
(***************************************************************************)
REG_RESET == \h00
REG_START == \h04
REG_STATUS == \h08
REG_GOLDEN_NONCE == \h0C
REG_CUR_REQ == \h10
REG_CUR_NONCE == \h14
REG_MID(k) == \h100 + (k * 4)
REG_RES(k) == \h200 + (k * 4)
REG_TGT_Unscaled(k) == \h300 + k
REG_TGT(k) == \h300 + (k * 4)

(***************************************************************************)
(* Register transport: write_register / read_register (sdk) and            *)
(* write_reg / read_reg (test).  Every access is appended to recent: its   *)
(* kind, its offset and, for a write, the value written (the value a read  *)
(* returns goes to the variable the code assigns it to).                   *)
(***************************************************************************)
Wr(off, val) == [op |-> "W", off |-> off, val |-> val]
Rd(off) == [op |-> "R", off |-> off, val |-> <<>>]
Dl(us) == [op |-> "D", off |-> 0, val |-> FromInt(us)]

Log(e) ==
    recent' = IF Len(recent) < WindowLen THEN Append(recent, e)
              ELSE Append(Tail(recent), e)

WriteReg(off, val) ==
    /\ Log(Wr(off, val))
    /\ regs' = IF off \in DOMAIN regs THEN [regs EXCEPT ![off] = val]
               ELSE regs @@ (off :> val)
    /\ wcount' = IF off \in DOMAIN wcount THEN [wcount EXCEPT ![off] = @ + 1]
                 ELSE wcount @@ (off :> 1)

ReadReg(off, val) ==
    /\ Log(Rd(off))
    /\ UNCHANGED <<regs, wcount>>

Usleep(us) ==
    /\ Log(Dl(us))
    /\ UNCHANGED <<regs, wcount>>

NoAccess == UNCHANGED <<regs, wcount, recent>>

Call(target, ret) ==
    /\ pc' = target
    /\ stack' = <<ret>> \o stack

Return ==
    /\ pc' = Head(stack)
    /\ stack' = Tail(stack)

Goto(target) ==
    /\ pc' = target
    /\ UNCHANGED stack

(***************************************************************************)
(* bitcoin_miner_sdk_xilinx.c: data.                                       *)
(***************************************************************************)
MaxTime == 1         \* time(NULL) returns <<0, 0..MaxTime>>
TimeVals == {U32(0, v) : v \in 0..MaxTime}

\* set_test_difficulty's easy_target and set_real_difficulty's real_target
easy_target ==
    <<AllOnes, AllOnes, AllOnes, AllOnes, AllOnes, AllOnes, AllOnes, U32(0, \h00FF)>>
real_target == <<Zero, Zero, Zero, Zero, Zero, Zero, Zero, Zero>>

\* the header initialisers of mining_loop_test and mining_loop_real; the
\* fields left out of the initialisers (prev_block, merkle_root) are zero
\* and are never read
TestHeader(t) ==
    [version |-> U32(\h2000, 0), timestamp |-> t,
     bits |-> U32(\h1D00, \hFFFF), nonce |-> Zero]
RealHeader(t) ==
    [version |-> U32(\h2000, 0), timestamp |-> t,
     bits |-> U32(\h1703, \hFFFC), nonce |-> Zero]

process_block_header_NoMask(header) ==
    LET mantissa == header.bits
    IN  [mid_state |-> [k \in 1..8 |-> AddInt(U32(\h1234, \h5678), k - 1)],
         residual_data |-> <<header.nonce, U32(\h8000, 0), U32(0, \h0140)>>,
         target |-> [k \in 1..8 |-> IF k = 1 THEN mantissa ELSE AllOnes]]

process_block_header(header) ==
    LET exp == ShiftRight24(header.bits)
        mantissa == Low24(header.bits)
    IN  [mid_state |-> [k \in 1..8 |-> AddInt(U32(\h1234, \h5678), k - 1)],
         residual_data |-> <<header.nonce, U32(\h8000, 0), U32(0, \h0140)>>,
         target |-> [k \in 1..8 |-> IF k = 1 THEN mantissa ELSE AllOnes]]

\* mining_params_t params before process_block_header has filled it; the
\* programs never read it in that state
NoParams ==
    [mid_state |-> [k \in 1..8 |-> Zero],
     residual_data |-> [k \in 1..3 |-> Zero],
     target |-> [k \in 1..8 |-> Zero]]

NoWord == <<>>

(***************************************************************************)
(* bitcoin_miner_sdk_xilinx.c: the conditions and offsets of the code.     *)
(***************************************************************************)
TEST_CAP == 1000
REAL_CAP == 10000
TEST_PERIOD == 10
REAL_PERIOD == 100
IterationCap(m) == IF m = "real" THEN REAL_CAP ELSE TEST_CAP
StatusPeriod(m) == IF m = "real" THEN REAL_PERIOD ELSE TEST_PERIOD

\* if (iteration > 1000) / if (iteration > 10000)
TimeoutReached_Late(iter, m) == iter > IterationCap(m) + 1
TimeoutReached(iter, m) == iter > IterationCap(m)

\* if (iteration % 10 == 0) / if (iteration % 100 == 0)
SnapshotDue_OffByOne(iter, m) == (iter + 1) % StatusPeriod(m) = 0
SnapshotDue(iter, m) == iter % StatusPeriod(m) = 0

\* check_found: return (found & 0x1)
check_found_Bit1(v) == Bit1(v)
check_found(v) == Bit0(v)

\* print_mining_status: if (found)
PmsFoundTest(v) == NonZero(v)

\* write_mid_state, write_residual_data, write_target: loop tests and offsets
MidStateCond(k) == k < 8
ResidualCond_Short(k) == k < 2
ResidualCond(k) == k < 3
TargetCond(k) == k < 8
MidStateOffset(k) == BANK_1_OFFSET + (k * 4)
ResidualOffset(k) == BANK_2_OFFSET + (k * 4)
TargetOffset(k) == BANK_3_OFFSET + (k * 4)

\* the array set_test_difficulty / set_real_difficulty hands to write_target
DifficultyTarget(m) == IF m = "real" THEN real_target ELSE easy_target

\* main: if (choice == 1) ... else if (choice == 2) ... else ...
ModeFor_InvalidToReal(c) == IF c = 1 THEN "test" ELSE "real"
ModeFor(c) == IF c = 1 THEN "test" ELSE IF c = 2 THEN "real" ELSE "test"

\* the order of the calls of mining_loop_test / mining_loop_real before the loop
LoadSequence ==
    <<"process_header", "write_target", "write_mid_state",
      "write_residual_data", "start_mining">>
AfterLoad(label) ==
    LET k == CHOOSE n \in 1..Len(LoadSequence) : LoadSequence[n] = label
    IN  LoadSequence[k + 1]

\* where the found branch continues after stop_mining: break
FoundReturn_NoBreak == "read_not_found"
FoundReturn == "loop_exit"

(***************************************************************************)
(* bitcoin_miner_sdk_xilinx.c: main, stop_mining.                          *)
(***************************************************************************)
SdkMain_Init_NoReset ==
    /\ pc = "main"
    /\ Goto("scanf")
    /\ NoAccess
    /\ UNCHANGED <<prog, hdr, hw, exitCode, loops, snap,
                   choice, mode, params, i, iteration, found, lastFound,
                   foundChk, sawTerminal, outcome, nOutcomes, bodies,
                   stopsSinceStart, startCount, polls>>

SdkMain_Init ==
    /\ pc = "main"
    /\ Call("stop_mining", "scanf")
    /\ NoAccess
    /\ UNCHANGED <<prog, hdr, hw, exitCode, loops, snap,
                   choice, mode, params, i, iteration, found, lastFound,
                   foundChk, sawTerminal, outcome, nOutcomes, bodies,
                   stopsSinceStart, startCount, polls>>

StopMining_Assert ==
    /\ pc = "stop_mining"
    /\ WriteReg(CTRL_SRST, One)
    /\ stopsSinceStart' = IF startCount > 0 THEN stopsSinceStart + 1
                          ELSE stopsSinceStart
    /\ Goto("stop_delay")
    /\ UNCHANGED <<prog, hdr, hw, exitCode, loops, snap,
                   choice, mode, params, i, iteration, found, lastFound,
                   foundChk, sawTerminal, outcome, nOutcomes, bodies,
                   startCount, polls>>

StopMining_Delay ==
    /\ pc = "stop_delay"
    /\ Usleep(1000)
    /\ Goto("stop_deassert")
    /\ UNCHANGED <<prog, hdr, hw, exitCode, loops, snap,
                   choice, mode, params, i, iteration, found, lastFound,
                   foundChk, sawTerminal, outcome, nOutcomes, bodies,
                   stopsSinceStart, startCount, polls>>

StopMining_Deassert_Missing ==
    /\ pc = "stop_deassert"
    /\ Return
    /\ NoAccess
    /\ UNCHANGED <<prog, hdr, hw, exitCode, loops, snap,
                   choice, mode, params, i, iteration, found, lastFound,
                   foundChk, sawTerminal, outcome, nOutcomes, bodies,
                   stopsSinceStart, startCount, polls>>

StopMining_Deassert ==
    /\ pc = "stop_deassert"
    /\ WriteReg(CTRL_SRST, Zero)
    /\ Return
    /\ UNCHANGED <<prog, hdr, hw, exitCode, loops, snap,
                   choice, mode, params, i, iteration, found, lastFound,
                   foundChk, sawTerminal, outcome, nOutcomes, bodies,
                   stopsSinceStart, startCount, polls>>

SdkMain_Scanf ==
    /\ pc = "scanf"
    /\ \E c \in ChoiceVals : choice' = c
    /\ Goto("dispatch")
    /\ NoAccess
    /\ UNCHANGED <<prog, hdr, hw, exitCode, loops, snap,
                   mode, params, i, iteration, found, lastFound,
                   foundChk, sawTerminal, outcome, nOutcomes, bodies,
                   stopsSinceStart, startCount, polls>>

SdkMain_Dispatch ==
    /\ pc = "dispatch"
    /\ mode' = ModeFor(choice)
    /\ loops' = loops + 1
    /\ Goto(LoadSequence[1])
    /\ NoAccess
    /\ UNCHANGED <<prog, hdr, hw, exitCode, snap,
                   choice, params, i, iteration, found, lastFound,
                   foundChk, sawTerminal, outcome, nOutcomes, bodies,
                   stopsSinceStart, startCount, polls>>

(***************************************************************************)
(* mining_loop_test / mining_loop_real: deriving and loading the job.      *)
(***************************************************************************)
ProcessHeader ==
    /\ pc = "process_header"
    /\ \E t \in TimeVals :
          params' = process_block_header(IF mode = "real" THEN RealHeader(t)
                                         ELSE TestHeader(t))
    /\ i' = 0
    /\ Goto(AfterLoad("process_header"))
    /\ NoAccess
    /\ UNCHANGED <<prog, hdr, hw, exitCode, loops, snap,
                   choice, mode, iteration, found, lastFound,
                   foundChk, sawTerminal, outcome, nOutcomes, bodies,
                   stopsSinceStart, startCount, polls>>

WriteTarget ==
    /\ pc = "write_target"
    /\ \/ /\ TargetCond(i)
          /\ WriteReg(TargetOffset(i), DifficultyTarget(mode)[i + 1])
          /\ i' = i + 1
          /\ Goto("write_target")
       \/ /\ ~TargetCond(i)
          /\ i' = 0
          /\ Goto(AfterLoad("write_target"))
          /\ NoAccess
    /\ UNCHANGED <<prog, hdr, hw, exitCode, loops, snap,
                   choice, mode, params, iteration, found, lastFound,
                   foundChk, sawTerminal, outcome, nOutcomes, bodies,
                   stopsSinceStart, startCount, polls>>

WriteMidState ==
    /\ pc = "write_mid_state"
    /\ \/ /\ MidStateCond(i)
          /\ WriteReg(MidStateOffset(i), params.mid_state[i + 1])
          /\ i' = i + 1
          /\ Goto("write_mid_state")
       \/ /\ ~MidStateCond(i)
          /\ i' = 0
          /\ Goto(AfterLoad("write_mid_state"))
          /\ NoAccess
    /\ UNCHANGED <<prog, hdr, hw, exitCode, loops, snap,
                   choice, mode, params, iteration, found, lastFound,
                   foundChk, sawTerminal, outcome, nOutcomes, bodies,
                   stopsSinceStart, startCount, polls>>

WriteResidualData ==
    /\ pc = "write_residual_data"
    /\ \/ /\ ResidualCond(i)
          /\ WriteReg(ResidualOffset(i), params.residual_data[i + 1])
          /\ i' = i + 1
          /\ Goto("write_residual_data")
       \/ /\ ~ResidualCond(i)
          /\ i' = 0
          /\ Goto(AfterLoad("write_residual_data"))
          /\ NoAccess
    /\ UNCHANGED <<prog, hdr, hw, exitCode, loops, snap,
                   choice, mode, params, iteration, found, lastFound,
                   foundChk, sawTerminal, outcome, nOutcomes, bodies,
                   stopsSinceStart, startCount, polls>>

StartMining ==
    /\ pc = "start_mining"
    /\ WriteReg(CTRL_START, One)
    /\ startCount' = startCount + 1
    /\ iteration' = 0
    /\ Goto("loop_top")
    /\ UNCHANGED <<prog, hdr, hw, exitCode, loops, snap,
                   choice, mode, params, i, found, lastFound,
                   foundChk, sawTerminal, outcome, nOutcomes, bodies,
                   stopsSinceStart, polls>>

(***************************************************************************)
(* The accelerator.  Under Spec it is not modelled: a status read returns  *)
(* any value of StatusVals.  Under SpecHW it holds a found bit and an      *)
(* exhausted bit, and a status read returns what it holds: the sdk reads   *)
(* them as two registers, the test program as bits 0 and 1 of one.         *)
(***************************************************************************)
NoAccelerator == [on |-> FALSE, found |-> 0, exhausted |-> 0]
NoHeader == [version |-> Zero, timestamp |-> Zero, bits |-> Zero, nonce |-> Zero]
FoundReadVals == IF hw.on THEN {U32(0, hw.found)} ELSE StatusVals
ExhaustedReadVals == IF hw.on THEN {U32(0, hw.exhausted)} ELSE StatusVals
StatusReadVals ==
    IF hw.on THEN {U32(0, hw.found + 2 * hw.exhausted)} ELSE StatusVals

(***************************************************************************)
(* get_current_nonce and print_mining_status.                              *)
(***************************************************************************)
GetCurrentNonce_Assert ==
    /\ pc = "print_mining_status"
    /\ WriteReg(CTRL_CURRENT_HASH_REQ, One)
    /\ Goto("gcn_delay")
    /\ UNCHANGED <<prog, hdr, hw, exitCode, loops, snap,
                   choice, mode, params, i, iteration, found, lastFound,
                   foundChk, sawTerminal, outcome, nOutcomes, bodies,
                   stopsSinceStart, startCount, polls>>

GetCurrentNonce_Delay ==
    /\ pc = "gcn_delay"
    /\ Usleep(1000)
    /\ Goto("gcn_deassert")
    /\ UNCHANGED <<prog, hdr, hw, exitCode, loops, snap,
                   choice, mode, params, i, iteration, found, lastFound,
                   foundChk, sawTerminal, outcome, nOutcomes, bodies,
                   stopsSinceStart, startCount, polls>>

GetCurrentNonce_Deassert_Missing ==
    /\ pc = "gcn_deassert"
    /\ Goto("gcn_read")
    /\ NoAccess
    /\ UNCHANGED <<prog, hdr, hw, exitCode, loops, snap,
                   choice, mode, params, i, iteration, found, lastFound,
                   foundChk, sawTerminal, outcome, nOutcomes, bodies,
                   stopsSinceStart, startCount, polls>>

GetCurrentNonce_Deassert ==
    /\ pc = "gcn_deassert"
    /\ WriteReg(CTRL_CURRENT_HASH_REQ, Zero)
    /\ Goto("gcn_read")
    /\ UNCHANGED <<prog, hdr, hw, exitCode, loops, snap,
                   choice, mode, params, i, iteration, found, lastFound,
                   foundChk, sawTerminal, outcome, nOutcomes, bodies,
                   stopsSinceStart, startCount, polls>>

GetCurrentNonce_Read ==
    /\ pc = "gcn_read"
    /\ \E v \in NonceVals : ReadReg(STATUS_CURRENT_NONCE, v)
    /\ snap' = [snap EXCEPT !.nonce = @ + 1]
    /\ Goto("pms_found")
    /\ UNCHANGED <<prog, hdr, hw, exitCode, loops,
                   choice, mode, params, i, iteration, found, lastFound,
                   foundChk, sawTerminal, outcome, nOutcomes, bodies,
                   stopsSinceStart, startCount, polls>>

PrintStatus_ReadFound ==
    /\ pc = "pms_found"
    /\ \E v \in FoundReadVals :
          /\ ReadReg(STATUS_FOUND, v)
          /\ found' = v
          /\ lastFound' = v
    /\ snap' = [snap EXCEPT !.found = @ + 1]
    /\ Goto("pms_not_found")
    /\ UNCHANGED <<prog, hdr, hw, exitCode, loops,
                   choice, mode, params, i, iteration,
                   foundChk, sawTerminal, outcome, nOutcomes, bodies,
                   stopsSinceStart, startCount, polls>>

PrintStatus_ReadNotFound ==
    /\ pc = "pms_not_found"
    /\ \E v \in ExhaustedReadVals : ReadReg(STATUS_NOT_FOUND, v)
    /\ snap' = [snap EXCEPT !.notFound = @ + 1]
    /\ \/ /\ PmsFoundTest(found)
          /\ Goto("pms_golden")
          /\ UNCHANGED found
       \/ /\ ~PmsFoundTest(found)
          /\ Return
          /\ found' = Zero
    /\ UNCHANGED <<prog, hdr, hw, exitCode, loops,
                   choice, mode, params, i, iteration, lastFound,
                   foundChk, sawTerminal, outcome, nOutcomes, bodies,
                   stopsSinceStart, startCount, polls>>

PrintStatus_ReadGolden ==
    /\ pc = "pms_golden"
    /\ \E v \in NonceVals : ReadReg(STATUS_GOLDEN_NONCE, v)
    /\ Return
    /\ found' = Zero
    /\ UNCHANGED <<prog, hdr, hw, exitCode, loops, snap,
                   choice, mode, params, i, iteration, lastFound,
                   foundChk, sawTerminal, outcome, nOutcomes, bodies,
                   stopsSinceStart, startCount, polls>>

(***************************************************************************)
(* mining_loop_test / mining_loop_real: the polling loop.                  *)
(***************************************************************************)
LoopTop ==
    /\ pc = "loop_top"
    /\ bodies' = bodies + 1
    /\ foundChk' = -1
    /\ \/ /\ SnapshotDue(iteration, mode)
          /\ Call("print_mining_status", "check_found")
       \/ /\ ~SnapshotDue(iteration, mode)
          /\ Goto("check_found")
    /\ NoAccess
    /\ UNCHANGED <<prog, hdr, hw, exitCode, loops, snap,
                   choice, mode, params, i, iteration, found, lastFound,
                   sawTerminal, outcome, nOutcomes,
                   stopsSinceStart, startCount, polls>>

CheckFound ==
    /\ pc = "check_found"
    /\ \E v \in FoundReadVals :
          /\ ReadReg(STATUS_FOUND, v)
          /\ lastFound' = v
          /\ foundChk' = Bit0(v)
          /\ sawTerminal' = (sawTerminal \/ Bit0(v) = 1)
          /\ \/ /\ check_found(v) # 0
                /\ outcome' = "GoldenNonceFound"
                /\ nOutcomes' = nOutcomes + 1
                /\ Goto("found_golden")
             \/ /\ check_found(v) = 0
                /\ Goto("read_not_found")
                /\ UNCHANGED <<outcome, nOutcomes>>
    /\ UNCHANGED <<prog, hdr, hw, exitCode, loops, snap,
                   choice, mode, params, i, iteration, found, bodies,
                   stopsSinceStart, startCount, polls>>

FoundGolden ==
    /\ pc = "found_golden"
    /\ \E v \in NonceVals : ReadReg(STATUS_GOLDEN_NONCE, v)
    /\ Call("stop_mining", FoundReturn)
    /\ UNCHANGED <<prog, hdr, hw, exitCode, loops, snap,
                   choice, mode, params, i, iteration, found, lastFound,
                   foundChk, sawTerminal, outcome, nOutcomes, bodies,
                   stopsSinceStart, startCount, polls>>

ReadNotFound ==
    /\ pc = "read_not_found"
    /\ \E v \in ExhaustedReadVals :
          /\ ReadReg(STATUS_NOT_FOUND, v)
          /\ sawTerminal' = (sawTerminal \/ NonZero(v))
          /\ \/ /\ NonZero(v)
                /\ outcome' = "RangeExhausted"
                /\ nOutcomes' = nOutcomes + 1
                /\ Call("stop_mining", "loop_exit")
             \/ /\ ~NonZero(v)
                /\ Goto("loop_tail")
                /\ UNCHANGED <<outcome, nOutcomes>>
    /\ UNCHANGED <<prog, hdr, hw, exitCode, loops, snap,
                   choice, mode, params, i, iteration, found, lastFound,
                   foundChk, bodies, stopsSinceStart, startCount, polls>>

LoopTail ==
    /\ pc = "loop_tail"
    /\ Usleep(100000)
    /\ iteration' = iteration + 1
    /\ \/ /\ TimeoutReached(iteration + 1, mode)
          /\ outcome' = "TimedOut"
          /\ nOutcomes' = nOutcomes + 1
          /\ Call("stop_mining", "loop_exit")
       \/ /\ ~TimeoutReached(iteration + 1, mode)
          /\ Goto("loop_top")
          /\ UNCHANGED <<outcome, nOutcomes>>
    /\ UNCHANGED <<prog, hdr, hw, exitCode, loops, snap,
                   choice, mode, params, i, found, lastFound,
                   foundChk, sawTerminal, bodies,
                   stopsSinceStart, startCount, polls>>

LoopExit ==
    /\ pc = "loop_exit"
    /\ Goto("main_return")
    /\ NoAccess
    /\ UNCHANGED <<prog, hdr, hw, exitCode, loops, snap,
                   choice, mode, params, i, iteration, found, lastFound,
                   foundChk, sawTerminal, outcome, nOutcomes, bodies,
                   stopsSinceStart, startCount, polls>>

\* main: printf("Mining demonstration completed"); return 0;
SdkMain_Return ==
    /\ pc = "main_return"
    /\ exitCode' = 0
    /\ Goto("done")
    /\ NoAccess
    /\ UNCHANGED <<prog, hdr, hw, loops, snap,
                   choice, mode, params, i, iteration, found, lastFound,
                   foundChk, sawTerminal, outcome, nOutcomes, bodies,
                   stopsSinceStart, startCount, polls>>

(***************************************************************************)
(* fpga_sha256d_miner_test.c.                                              *)
(***************************************************************************)
TestMid ==
    <<U32(\h6a09, \he667), U32(\hbb67, \hae85), U32(\h3c6e, \hf372),
      U32(\ha54f, \hf53a), U32(\h510e, \h527f), U32(\h9b05, \h688c),
      U32(\h1f83, \hd9ab), U32(\h5be0, \hcd19)>>
TestRes == <<U32(\h8000, 0), Zero, U32(0, \h0100)>>
TestTgt ==
    <<U32(0, \hffff), AllOnes, AllOnes, AllOnes, AllOnes, AllOnes, AllOnes, AllOnes>>

\* the if / else if of the polling loop of main
PollBranch_ExhaustedFirst(status) ==
    IF Bit1(status) # 0 THEN "exhausted"
    ELSE IF Bit0(status) # 0 THEN "found" ELSE "continue"
PollBranch(status) ==
    IF Bit0(status) # 0 THEN "found"
    ELSE IF Bit1(status) # 0 THEN "exhausted" ELSE "continue"

TestMain_Init ==
    /\ pc = "t_main"
    /\ i' = 0
    /\ Goto("t_write_mid")
    /\ NoAccess
    /\ UNCHANGED <<prog, hdr, hw, exitCode, loops, snap,
                   choice, mode, params, iteration, found, lastFound,
                   foundChk, sawTerminal, outcome, nOutcomes, bodies,
                   stopsSinceStart, startCount, polls>>

WriteBlockHeader_Mid ==
    /\ pc = "t_write_mid"
    /\ \/ /\ i < 8
          /\ WriteReg(REG_MID(i), TestMid[i + 1])
          /\ i' = i + 1
          /\ Goto("t_write_mid")
       \/ /\ ~(i < 8)
          /\ i' = 0
          /\ Goto("t_write_res")
          /\ NoAccess
    /\ UNCHANGED <<prog, hdr, hw, exitCode, loops, snap,
                   choice, mode, params, iteration, found, lastFound,
                   foundChk, sawTerminal, outcome, nOutcomes, bodies,
                   stopsSinceStart, startCount, polls>>

WriteBlockHeader_Res ==
    /\ pc = "t_write_res"
    /\ \/ /\ i < 3
          /\ WriteReg(REG_RES(i), TestRes[i + 1])
          /\ i' = i + 1
          /\ Goto("t_write_res")
       \/ /\ ~(i < 3)
          /\ i' = 0
          /\ Goto("t_write_tgt")
          /\ NoAccess
    /\ UNCHANGED <<prog, hdr, hw, exitCode, loops, snap,
                   choice, mode, params, iteration, found, lastFound,
                   foundChk, sawTerminal, outcome, nOutcomes, bodies,
                   stopsSinceStart, startCount, polls>>

WriteBlockHeader_Tgt ==
    /\ pc = "t_write_tgt"
    /\ \/ /\ i < 8
          /\ WriteReg(REG_TGT(i), TestTgt[i + 1])
          /\ i' = i + 1
          /\ Goto("t_write_tgt")
       \/ /\ ~(i < 8)
          /\ i' = 0
          /\ Goto("t_reset_assert")
          /\ NoAccess
    /\ UNCHANGED <<prog, hdr, hw, exitCode, loops, snap,
                   choice, mode, params, iteration, found, lastFound,
                   foundChk, sawTerminal, outcome, nOutcomes, bodies,
                   stopsSinceStart, startCount, polls>>

TestMain_ResetAssert ==
    /\ pc = "t_reset_assert"
    /\ WriteReg(REG_RESET, One)
    /\ Goto("t_reset_delay")
    /\ UNCHANGED <<prog, hdr, hw, exitCode, loops, snap,
                   choice, mode, params, i, iteration, found, lastFound,
                   foundChk, sawTerminal, outcome, nOutcomes, bodies,
                   stopsSinceStart, startCount, polls>>

TestMain_ResetDelay ==
    /\ pc = "t_reset_delay"
    /\ Usleep(1000)
    /\ Goto("t_reset_deassert")
    /\ UNCHANGED <<prog, hdr, hw, exitCode, loops, snap,
                   choice, mode, params, i, iteration, found, lastFound,
                   foundChk, sawTerminal, outcome, nOutcomes, bodies,
                   stopsSinceStart, startCount, polls>>

TestMain_ResetDeassert ==
    /\ pc = "t_reset_deassert"
    /\ WriteReg(REG_RESET, Zero)
    /\ Goto("t_start")
    /\ UNCHANGED <<prog, hdr, hw, exitCode, loops, snap,
                   choice, mode, params, i, iteration, found, lastFound,
                   foundChk, sawTerminal, outcome, nOutcomes, bodies,
                   stopsSinceStart, startCount, polls>>

TestMain_Start ==
    /\ pc = "t_start"
    /\ WriteReg(REG_START, One)
    /\ startCount' = startCount + 1
    /\ Goto("t_poll")
    /\ UNCHANGED <<prog, hdr, hw, exitCode, loops, snap,
                   choice, mode, params, i, iteration, found, lastFound,
                   foundChk, sawTerminal, outcome, nOutcomes, bodies,
                   stopsSinceStart, polls>>

\* while (1) has no exit of its own: the model explores MaxPolls polls
TestMain_Poll ==
    /\ pc = "t_poll"
    /\ polls < MaxPolls
    /\ polls' = polls + 1
    /\ bodies' = bodies + 1
    /\ \E status \in StatusReadVals :
          /\ ReadReg(REG_STATUS, status)
          /\ lastFound' = status
          /\ foundChk' = Bit0(status)
          /\ sawTerminal' = (sawTerminal \/ Bit0(status) = 1 \/ Bit1(status) = 1)
          /\ \/ /\ PollBranch(status) = "found"
                /\ outcome' = "GoldenNonceFound"
                /\ nOutcomes' = nOutcomes + 1
                /\ Goto("t_golden")
             \/ /\ PollBranch(status) = "exhausted"
                /\ outcome' = "RangeExhausted"
                /\ nOutcomes' = nOutcomes + 1
                /\ Goto("t_end")
             \/ /\ PollBranch(status) = "continue"
                /\ Goto("t_cur_nonce")
                /\ UNCHANGED <<outcome, nOutcomes>>
    /\ UNCHANGED <<prog, hdr, hw, exitCode, loops, snap,
                   choice, mode, params, i, iteration, found,
                   stopsSinceStart, startCount>>

TestMain_ReadGolden ==
    /\ pc = "t_golden"
    /\ \E v \in NonceVals : ReadReg(REG_GOLDEN_NONCE, v)
    /\ Goto("t_end")
    /\ UNCHANGED <<prog, hdr, hw, exitCode, loops, snap,
                   choice, mode, params, i, iteration, found, lastFound,
                   foundChk, sawTerminal, outcome, nOutcomes, bodies,
                   stopsSinceStart, startCount, polls>>

TestMain_ReadCurNonce ==
    /\ pc = "t_cur_nonce"
    /\ \E v \in NonceVals : ReadReg(REG_CUR_NONCE, v)
    /\ Goto("t_sleep")
    /\ UNCHANGED <<prog, hdr, hw, exitCode, loops, snap,
                   choice, mode, params, i, iteration, found, lastFound,
                   foundChk, sawTerminal, outcome, nOutcomes, bodies,
                   stopsSinceStart, startCount, polls>>

TestMain_Sleep ==
    /\ pc = "t_sleep"
    /\ Usleep(10000)
    /\ Goto("t_poll")
    /\ UNCHANGED <<prog, hdr, hw, exitCode, loops, snap,
                   choice, mode, params, i, iteration, found, lastFound,
                   foundChk, sawTerminal, outcome, nOutcomes, bodies,
                   stopsSinceStart, startCount, polls>>

TestMain_End ==
    /\ pc = "t_end"
    /\ Goto("done")
    /\ exitCode' = 0
    /\ NoAccess
    /\ UNCHANGED <<prog, hdr, hw, loops, snap,
                   choice, mode, params, i, iteration, found, lastFound,
                   foundChk, sawTerminal, outcome, nOutcomes, bodies,
                   stopsSinceStart, startCount, polls>>

(***************************************************************************)
(* The specification: either program, from its entry to its exit.          *)
(***************************************************************************)
InitProgram ==
    /\ prog \in {"sdk", "test"}
    /\ pc = IF prog = "sdk" THEN "main" ELSE "t_main"
    /\ stack = <<>>
    /\ choice = 0
    /\ mode = "none"
    /\ params = NoParams
    /\ i = 0
    /\ iteration = 0
    /\ found = Zero
    /\ regs = <<>>
    /\ wcount = <<>>
    /\ recent = <<>>
    /\ lastFound = NoWord
    /\ foundChk = -1
    /\ sawTerminal = FALSE
    /\ outcome = "None"
    /\ nOutcomes = 0
    /\ bodies = 0
    /\ stopsSinceStart = 0
    /\ startCount = 0
    /\ polls = 0
    /\ hdr = NoHeader
    /\ exitCode = -1
    /\ loops = 0
    /\ snap = [nonce |-> 0, found |-> 0, notFound |-> 0]

Init ==
    /\ InitProgram
    /\ hw = NoAccelerator

Next ==
    \/ SdkMain_Init
    \/ StopMining_Assert
    \/ StopMining_Delay
    \/ StopMining_Deassert
    \/ SdkMain_Scanf
    \/ SdkMain_Dispatch
    \/ ProcessHeader
    \/ WriteTarget
    \/ WriteMidState
    \/ WriteResidualData
    \/ StartMining
    \/ GetCurrentNonce_Assert
    \/ GetCurrentNonce_Delay
    \/ GetCurrentNonce_Deassert
    \/ GetCurrentNonce_Read
    \/ PrintStatus_ReadFound
    \/ PrintStatus_ReadNotFound
    \/ PrintStatus_ReadGolden
    \/ LoopTop
    \/ CheckFound
    \/ FoundGolden
    \/ ReadNotFound
    \/ LoopTail
    \/ LoopExit
    \/ SdkMain_Return
    \/ TestMain_Init
    \/ WriteBlockHeader_Mid
    \/ WriteBlockHeader_Res
    \/ WriteBlockHeader_Tgt
    \/ TestMain_ResetAssert
    \/ TestMain_ResetDelay
    \/ TestMain_ResetDeassert
    \/ TestMain_Start
    \/ TestMain_Poll
    \/ TestMain_ReadGolden
    \/ TestMain_ReadCurNonce
    \/ TestMain_Sleep
    \/ TestMain_End

Spec == Init /\ [][Next]_vars

(***************************************************************************)
(* Vocabulary of the properties.                                           *)
(***************************************************************************)
\* the 19 parameter registers of the register map, and the bytes of the banks
MidRegs == {\h100 + 4 * k : k \in 0..7}
ResRegs == {\h200 + 4 * k : k \in 0..2}
TgtRegs == {\h300 + 4 * k : k \in 0..7}
ParamRegs == MidRegs \cup ResRegs \cup TgtRegs
BankBytes == (\h100 .. \h11F) \cup (\h200 .. \h20B) \cup (\h300 .. \h31F)

Writes(f, off) == IF off \in DOMAIN f THEN f[off] ELSE 0
Written(off) == off \in DOMAIN wcount

\* the k-th most recent entry of recent (k = 0 is the last one)
HasRecent(k) == Len(recent) > k
Recent(k) == recent[Len(recent) - k]

\* positions inside the body of the sdk polling loop
SdkBodyPcs ==
    {"print_mining_status", "gcn_delay", "gcn_deassert", "gcn_read",
     "pms_found", "pms_not_found", "pms_golden", "check_found",
     "found_golden", "read_not_found", "loop_tail"}
InSdkBody ==
    \/ pc \in SdkBodyPcs
    \/ /\ pc \in {"stop_mining", "stop_delay", "stop_deassert"}
       /\ startCount > 0
       /\ outcome # "TimedOut"

\* the arrays the running program loads
LoadedMid == IF prog = "test" THEN TestMid ELSE params.mid_state
LoadedRes == IF prog = "test" THEN TestRes ELSE params.residual_data
LoadedTgt == IF prog = "test" THEN TestTgt ELSE DifficultyTarget(mode)

(***************************************************************************)
(* C1. In mining_loop_test (cap 1000) and mining_loop_real (cap 10000),    *)
(* whatever the status reads return, no loop body is started with an       *)
(* iteration index above the cap, at most cap+1 bodies are started, the    *)
(* loop is left as soon as the index passes the cap, and the program is    *)
(* never stuck before its end.                                             *)
(***************************************************************************)
C1_LoopWithinCap ==
    (prog = "sdk" /\ mode # "none") =>
        LET cap == IF mode = "real" THEN 10000 ELSE 1000
        IN  /\ bodies <= cap + 1
            /\ iteration <= cap + 1
            /\ InSdkBody => iteration <= cap
            /\ pc = "loop_top" => iteration <= cap /\ bodies = iteration
            /\ pc # "done" => ENABLED Next

\* mining_loop_real starts its last body at index 10000 and then times out
C1_Witness ==
    /\ mode = "real"
    /\ pc = "done"
    /\ outcome = "TimedOut"
    /\ bodies = 10001
    /\ iteration = 10001

(***************************************************************************)
(* C2. Every polling session of mining_loop_test and mining_loop_real      *)
(* ends with exactly one outcome among GoldenNonceFound, RangeExhausted    *)
(* and TimedOut, and stop_mining has been called exactly once between the  *)
(* start write and the exit of the loop; before an outcome is reported     *)
(* stop_mining is not called.                                              *)
(***************************************************************************)
C2_OneOutcomeOneStop ==
    prog = "sdk" =>
        /\ nOutcomes <= 1
        /\ stopsSinceStart <= 1
        /\ outcome = "None" => (nOutcomes = 0 /\ stopsSinceStart = 0)
        /\ pc \in {"loop_exit", "main_return", "done"} =>
              /\ nOutcomes = 1
              /\ outcome \in {"GoldenNonceFound", "RangeExhausted", "TimedOut"}
              /\ stopsSinceStart = 1

C2_Witness ==
    /\ prog = "sdk"
    /\ pc = "loop_exit"
    /\ outcome = "RangeExhausted"
    /\ nOutcomes = 1
    /\ stopsSinceStart = 1

C4_FoundBeforeExhausted ==
    /\ outcome = "RangeExhausted" => foundChk = 0
    /\ foundChk = 1 => outcome = "GoldenNonceFound"

\* the test program reads a status with both bits set and reports found
C4_Witness ==
    /\ prog = "test"
    /\ lastFound = U32(0, 3)
    /\ outcome = "GoldenNonceFound"

(***************************************************************************)
(* C5. Every read of the current-nonce value register is immediately       *)
(* preceded by a complete request pulse on the current-nonce request       *)
(* register: write 1, delay, write 0, then the read.                       *)
(***************************************************************************)
C5_CurrentNonceReadAfterPulse ==
    LET curNonce == IF prog = "test" THEN \h14 ELSE \h0C
    IN  (HasRecent(0) /\ Recent(0).op = "R" /\ Recent(0).off = curNonce) =>
            /\ HasRecent(3)
            /\ Recent(3) = Wr(\h10, One)
            /\ Recent(2).op = "D"
            /\ Recent(1) = Wr(\h10, Zero)

(***************************************************************************)
(* C6. The golden-nonce register is read only when bit 0 was set in the    *)
(* most recent found-status read before it.                                *)
(***************************************************************************)
C6_GoldenReadOnlyWhenFoundBit ==
    LET golden == IF prog = "test" THEN \h0C ELSE \h08
    IN  (HasRecent(0) /\ Recent(0).op = "R" /\ Recent(0).off = golden) =>
            /\ lastFound # NoWord
            /\ lastFound[2] % 2 = 1

(***************************************************************************)
(* C7. Parameter loading writes exactly the 19 parameter registers         *)
(* 0x100+4i (i in 0..7), 0x200+4i (i in 0..2), 0x300+4i (i in 0..7), each  *)
(* exactly once, word i of each array to index i of its bank; no other     *)
(* offset of the banks is written.                                         *)
(***************************************************************************)
C7_NineteenWordsOnce ==
    /\ \A off \in DOMAIN wcount :
          off >= \h100 => (off \in ParamRegs /\ wcount[off] = 1)
    /\ \A k \in 0..7 :
          Written(\h100 + 4 * k) => regs[\h100 + 4 * k] = LoadedMid[k + 1]
    /\ \A k \in 0..2 :
          Written(\h200 + 4 * k) => regs[\h200 + 4 * k] = LoadedRes[k + 1]
    /\ \A k \in 0..7 :
          Written(\h300 + 4 * k) => regs[\h300 + 4 * k] = LoadedTgt[k + 1]
    /\ startCount > 0 => {off \in DOMAIN wcount : off >= \h100} = ParamRegs

C7_Witness ==
    /\ prog = "sdk"
    /\ pc = "loop_top"
    /\ startCount = 1
    /\ Cardinality({off \in DOMAIN wcount : off >= \h100}) = 19

(***************************************************************************)
(* C8. The parameter words are written in bank order: no target-bank       *)
(* write before the last residual-bank write, no residual-bank write       *)
(* before the last midstate-bank write.                                    *)
(***************************************************************************)
C8_BankOrder ==
    /\ (\E off \in TgtRegs : Written(off)) => \A off \in ResRegs : Written(off)
    /\ (\E off \in ResRegs : Written(off)) => \A off \in MidRegs : Written(off)

(***************************************************************************)
(* C9. Once the start control register has been written with 1, all 8      *)
(* midstate words, all 3 residual words and all 8 target words have been   *)
(* written.                                                                *)
(***************************************************************************)
C9_StartOnlyAfterFullLoad ==
    startCount > 0 => \A off \in ParamRegs : Written(off)

C9_Witness ==
    /\ prog = "test"
    /\ pc = "t_poll"
    /\ startCount = 1

(***************************************************************************)
(* C10. After the start control register is written, no byte of the        *)
(* midstate, residual and target banks is written again: no step taken     *)
(* after the start write changes the write count or the value of a bank    *)
(* register.                                                               *)
(***************************************************************************)
C10_JobFrozenAfterStart ==
    [][startCount > 0 =>
          \A off \in BankBytes :
              /\ Writes(wcount', off) = Writes(wcount, off)
              /\ Written(off) => regs'[off] = regs[off]]_vars

\* a run of the sdk that took a status snapshot, polled and stopped
C10_Witness ==
    /\ prog = "sdk"
    /\ pc = "done"
    /\ startCount = 1
    /\ stopsSinceStart = 1
    /\ Writes(wcount, \h10) >= 2

(***************************************************************************)
(* C11. Every write of 1 to the soft-reset register (offset 0x000) is      *)
(* followed by the delay and then, with no other register access in        *)
(* between, by a write of 0 to it, before the resetting code returns; the  *)
(* last value written to the register is 0 whenever no reset is in         *)
(* progress, and at the end of the program.                                *)
(***************************************************************************)
ResetPcs == {"stop_delay", "stop_deassert", "t_reset_delay", "t_reset_deassert"}

C11_ResetPulseDeasserts ==
    /\ (HasRecent(1) /\ Recent(1) = Wr(\h000, One)) => Recent(0).op = "D"
    /\ (HasRecent(2) /\ Recent(2) = Wr(\h000, One)) =>
          (Recent(1).op = "D" /\ Recent(0) = Wr(\h000, Zero))
    /\ (Written(\h000) /\ pc \notin ResetPcs) => regs[\h000] = Zero
    /\ pc = "done" => (Written(\h000) /\ regs[\h000] = Zero)

\* the sdk has made both its reset pulses: main's and the loop's stop_mining
C11_Witness ==
    /\ prog = "sdk"
    /\ pc = "done"
    /\ Writes(wcount, \h000) = 4
    /\ regs[\h000] = Zero

(***************************************************************************)
(* C12, as claimed.  Each of the three control registers (soft reset       *)
(* 0x000, start 0x004, current-nonce request 0x010) that was written with  *)
(* 1 has been written with 0 afterwards: none holds 1 when the program     *)
(* ends.                                                                   *)
(***************************************************************************)
C12_NoControlLatchedAtEnd ==
    pc = "done" =>
        \A r \in {\h000, \h004, \h010} : Written(r) => regs[r] = Zero

(***************************************************************************)
(* C12, amended.  The soft-reset and current-nonce request registers hold  *)
(* 1 only while their pulse is in progress and hold 0 when the program     *)
(* ends; the start register is written with 1 and never written with 0:    *)
(* it holds 1 from the start write to the end of the program.              *)
(***************************************************************************)
C12_PulsesDeassertExceptStart ==
    /\ (Written(\h000) /\ regs[\h000] = One) => pc \in ResetPcs
    /\ (Written(\h010) /\ regs[\h010] = One) => pc \in {"gcn_delay", "gcn_deassert"}
    /\ Written(\h004) => regs[\h004] = One
    /\ startCount > 0 => Written(\h004)
    /\ pc = "done" =>
          /\ Written(\h000) /\ regs[\h000] = Zero
          /\ Written(\h010) => regs[\h010] = Zero
          /\ Written(\h004) /\ regs[\h004] = One

\* the sdk ends after request pulses and reset pulses, start still at 1
C12_Witness ==
    /\ prog = "sdk"
    /\ pc = "done"
    /\ Writes(wcount, \h010) >= 2
    /\ regs[\h010] = Zero
    /\ regs[\h000] = Zero
    /\ regs[\h004] = One

(***************************************************************************)
(* C13. Every register access conforms to the register map: a write goes   *)
(* to 0x000 (reset), 0x004 (start), 0x010 (current-nonce request) or one   *)
(* of the 19 parameter registers, and a read goes to 0x008 (status),       *)
(* 0x00C (golden nonce) or 0x014 (current nonce).                          *)
(***************************************************************************)
C13_AccessesConformToMap ==
    HasRecent(0) =>
        /\ Recent(0).op = "W" =>
              Recent(0).off \in ({\h000, \h004, \h010} \cup ParamRegs)
        /\ Recent(0).op = "R" => Recent(0).off \in {\h008, \h00C, \h014}

(***************************************************************************)
(* process_block_header on its own: the header is drawn from               *)
(* HeaderInputs and the function is applied to it once.                    *)
(***************************************************************************)
ExponentBytes == {\h00, \h03, \h17, \h1D, \h80, \hFF}
MantissaHighBytes == {\h00, \h03, \h7F, \hFF}
LowHalves == {\h0000, \h8000, \hFFFC, \hFFFF}
NonceSeeds == {Zero, U32(\h8000, 1)}
HeaderInputs ==
    {[version |-> U32(\h2000, 0), timestamp |-> Zero,
      bits |-> U32(e * 256 + m, lo), nonce |-> n] :
        e \in ExponentBytes, m \in MantissaHighBytes, lo \in LowHalves,
        n \in NonceSeeds}

InitHeader ==
    /\ prog = "sdk"
    /\ pc = "pbh_call"
    /\ hdr \in HeaderInputs
    /\ stack = <<>>
    /\ choice = 0
    /\ mode = "none"
    /\ params = NoParams
    /\ i = 0
    /\ iteration = 0
    /\ found = Zero
    /\ regs = <<>>
    /\ wcount = <<>>
    /\ recent = <<>>
    /\ lastFound = NoWord
    /\ foundChk = -1
    /\ sawTerminal = FALSE
    /\ outcome = "None"
    /\ nOutcomes = 0
    /\ bodies = 0
    /\ stopsSinceStart = 0
    /\ startCount = 0
    /\ polls = 0
    /\ hw = NoAccelerator
    /\ exitCode = -1
    /\ loops = 0
    /\ snap = [nonce |-> 0, found |-> 0, notFound |-> 0]

ApplyProcessBlockHeader ==
    /\ pc = "pbh_call"
    /\ params' = process_block_header(hdr)
    /\ Goto("pbh_done")
    /\ NoAccess
    /\ UNCHANGED <<prog, hdr, hw, exitCode, loops, snap,
                   choice, mode, i, iteration, found, lastFound,
                   foundChk, sawTerminal, outcome, nOutcomes, bodies,
                   stopsSinceStart, startCount, polls>>

NextHeader == ApplyProcessBlockHeader

SpecHeader == InitHeader /\ [][NextHeader]_vars

(***************************************************************************)
(* C14. For every difficulty value bits, process_block_header produces     *)
(* target[0] = bits & 0xFFFFFF and target[1..7] = 0xFFFFFFFF, whatever     *)
(* the exponent byte; bits = 0x1D00FFFF gives target[0] = 0x0000FFFF.      *)
(***************************************************************************)
C14_TargetIsMantissaThenOnes ==
    pc = "pbh_done" =>
        /\ params.target[1] = <<hdr.bits[1] % 256, hdr.bits[2]>>
        /\ \A k \in 2..8 : params.target[k] = <<65535, 65535>>
        /\ hdr.bits = <<\h1D00, \hFFFF>> => params.target[1] = <<0, \hFFFF>>

C14_Witness ==
    /\ pc = "pbh_done"
    /\ hdr.bits = <<\h1D00, \hFFFF>>
    /\ params.target = <<<<0, \hFFFF>>, AllOnes, AllOnes, AllOnes,
                         AllOnes, AllOnes, AllOnes, AllOnes>>

(***************************************************************************)
(* C15. For every mode selection, main of the sdk runs exactly one         *)
(* polling loop: mining_loop_real if and only if the selection is 2,       *)
(* mining_loop_test for 1 and for every other value; whatever the outcome  *)
(* of the loop (found, exhausted, timed out), main completes and           *)
(* returns 0.                                                              *)
(***************************************************************************)
C15_OneLoopByChoice ==
    prog = "sdk" =>
        /\ loops <= 1
        /\ mode = "real" <=> (loops = 1 /\ choice = 2)
        /\ mode = "test" <=> (loops = 1 /\ choice # 2)
        /\ outcome = "TimedOut" =>
              iteration = (IF choice = 2 THEN 10001 ELSE 1001)
        /\ exitCode \in {-1, 0}
        /\ pc = "done" =>
              /\ loops = 1
              /\ exitCode = 0
              /\ outcome \in {"GoldenNonceFound", "RangeExhausted", "TimedOut"}

\* an invalid selection ran mining_loop_test to its timeout and main returned 0
C15_Witness ==
    /\ prog = "sdk"
    /\ choice = 3
    /\ mode = "test"
    /\ pc = "done"
    /\ outcome = "TimedOut"
    /\ exitCode = 0

(***************************************************************************)
(* C16. The start control register (0x004) is written with 1 exactly once  *)
(* per program run, and only when ready: at the start write a reset pulse  *)
(* has been completed (the reset register was written 1 and then 0, and    *)
(* holds 0) and the start register has not been written before.            *)
(***************************************************************************)
C16_StartOnceWhenReady ==
    [][/\ startCount' # startCount =>
             /\ startCount = 0
             /\ startCount' = 1
             /\ ~Written(\h004)
             /\ Written(\h000)
             /\ wcount[\h000] >= 2
             /\ regs[\h000] = Zero
       /\ Writes(wcount', \h004) = startCount'
       /\ startCount' > 0 => regs'[\h004] = One
       /\ pc' = "done" => startCount' = 1]_vars

\* mining_loop_real has just written start, after main's reset pulse
C16_Witness ==
    /\ prog = "sdk"
    /\ mode = "real"
    /\ pc = "loop_top"
    /\ iteration = 0
    /\ startCount = 1
    /\ Writes(wcount, \h000) = 2
    /\ regs[\h004] = One

(***************************************************************************)
(* The test program on its own, running on: its while (1) keeps no         *)
(* counter, so past MaxPolls polls the loop goes on with polls and bodies  *)
(* (which only count for the properties) left at their values.  The        *)
(* program is sequential and always takes its next step: weak fairness of  *)
(* the next-state relation.  The status values stay the environment's      *)
(* choice.                                                                 *)
(***************************************************************************)
TestMain_PollBeyond ==
    /\ pc = "t_poll"
    /\ polls = MaxPolls
    /\ \E status \in StatusReadVals :
          /\ ReadReg(REG_STATUS, status)
          /\ lastFound' = status
          /\ foundChk' = Bit0(status)
          /\ sawTerminal' = (sawTerminal \/ Bit0(status) = 1 \/ Bit1(status) = 1)
          /\ \/ /\ PollBranch(status) = "found"
                /\ outcome' = "GoldenNonceFound"
                /\ nOutcomes' = nOutcomes + 1
                /\ Goto("t_golden")
             \/ /\ PollBranch(status) = "exhausted"
                /\ outcome' = "RangeExhausted"
                /\ nOutcomes' = nOutcomes + 1
                /\ Goto("t_end")
             \/ /\ PollBranch(status) = "continue"
                /\ Goto("t_cur_nonce")
                /\ UNCHANGED <<outcome, nOutcomes>>
    /\ UNCHANGED <<prog, hdr, hw, exitCode, loops, snap,
                   choice, mode, params, i, iteration, found,
                   stopsSinceStart, startCount, polls, bodies>>

InitTest == Init /\ prog = "test"

NextTest ==
    \/ TestMain_Init
    \/ WriteBlockHeader_Mid
    \/ WriteBlockHeader_Res
    \/ WriteBlockHeader_Tgt
    \/ TestMain_ResetAssert
    \/ TestMain_ResetDelay
    \/ TestMain_ResetDeassert
    \/ TestMain_Start
    \/ TestMain_Poll
    \/ TestMain_PollBeyond
    \/ TestMain_ReadGolden
    \/ TestMain_ReadCurNonce
    \/ TestMain_Sleep
    \/ TestMain_End

SpecTestLive == InitTest /\ [][NextTest]_vars /\ WF_vars(NextTest)

(***************************************************************************)
(* C17. The polling loop of main of fpga_sha256d_miner_test.c terminates   *)
(* for any status sequence: the program reaches its end.                   *)
(***************************************************************************)
C17_TestLoopTerminates == <>(pc = "done")

(***************************************************************************)
(* C18. In mining_loop_test (N = 10) and mining_loop_real (N = 100) a      *)
(* status snapshot is taken in exactly the executed iterations whose       *)
(* index is a multiple of N (index 0 included), before that iteration's    *)
(* found check; each snapshot makes one current-nonce request pulse (two   *)
(* writes of 0x010) and one read each of the current nonce, the found      *)
(* status and the exhausted status; no request pulse is made in any other  *)
(* iteration.                                                              *)
(***************************************************************************)
SnapshotPcs ==
    {"print_mining_status", "gcn_delay", "gcn_deassert", "gcn_read",
     "pms_found", "pms_not_found", "pms_golden"}

C18_SnapshotEveryNth ==
    prog = "sdk" =>
        LET N == IF mode = "real" THEN 100 ELSE 10
            \* executed iterations so far whose index is a multiple of N
            k == IF bodies = 0 THEN 0 ELSE ((bodies - 1) \div N) + 1
        IN  /\ pc \in SnapshotPcs =>
                  /\ iteration % N = 0
                  /\ bodies = iteration + 1
                  /\ foundChk = -1
            /\ pc \in {"pms_found", "pms_not_found", "pms_golden"} =>
                  /\ Writes(wcount, \h010) = 2 * k
                  /\ snap.nonce = k
            /\ pc \notin SnapshotPcs =>
                  /\ Writes(wcount, \h010) = 2 * k
                  /\ snap = [nonce |-> k, found |-> k, notFound |-> k]

\* mining_loop_test at its found check of iteration 20, after three snapshots
C18_Witness ==
    /\ mode = "test"
    /\ pc = "check_found"
    /\ iteration = 20
    /\ snap = [nonce |-> 3, found |-> 3, notFound |-> 3]
    /\ Writes(wcount, \h010) = 6

(***************************************************************************)
(* C19. In mining_loop_test and mining_loop_real the job loaded before     *)
(* the start write equals the job process_block_header derived: the        *)
(* midstate, residual and target words written are params.mid_state,       *)
(* params.residual_data and params.target.                                 *)
(***************************************************************************)
C19_LoadedJobIsDerivedJob ==
    (prog = "sdk" /\ startCount > 0) =>
        /\ \A k \in 0..7 : regs[\h100 + 4 * k] = params.mid_state[k + 1]
        /\ \A k \in 0..2 : regs[\h200 + 4 * k] = params.residual_data[k + 1]
        /\ \A k \in 0..7 : regs[\h300 + 4 * k] = params.target[k + 1]

(***************************************************************************)
(* The programs beside the accelerator as a concurrent process: once the   *)
(* job is started and until the driver stops it, the accelerator may set   *)
(* its found bit and its exhausted bit, each at any point between two      *)
(* steps of the driver; status reads return the bits it holds.             *)
(***************************************************************************)
Accelerator ==
    /\ hw.on
    /\ startCount > 0
    /\ stopsSinceStart = 0
    /\ pc # "done"
    /\ \/ hw.found = 0 /\ hw' = [hw EXCEPT !.found = 1]
       \/ hw.exhausted = 0 /\ hw' = [hw EXCEPT !.exhausted = 1]
    /\ UNCHANGED <<prog, pc, stack, choice, mode, params, i, iteration, found,
                   regs, wcount, recent, lastFound, foundChk, sawTerminal,
                   outcome, nOutcomes, bodies, stopsSinceStart, startCount,
                   polls, hdr, exitCode, loops, snap>>

InitHW ==
    /\ InitProgram
    /\ hw = [on |-> TRUE, found |-> 0, exhausted |-> 0]

NextHW == Next \/ Accelerator

SpecHW == InitHW /\ [][NextHW]_vars

(***************************************************************************)
(* C20. With the accelerator running beside the driver, RangeExhausted is  *)
(* never reported while the found bit is set: at the exhausted-status      *)
(* read that triggers RangeExhausted the accelerator's found bit is        *)
(* clear.                                                                  *)
(***************************************************************************)
C20_ExhaustedOnlyWhileFoundClear ==
    [][(outcome # "RangeExhausted" /\ outcome' = "RangeExhausted") =>
          hw.found = 0]_vars

====
